---- MODULE Spec2Model ----
(***************************************************************************)
(* Model of freedium-defense/countermeasures/platform/bot-verification.py: *)
(* the crawler verification engine (identity classifier, dual-DNS          *)
(* verifier, range cache and matcher, verdict combiner).                   *)
(*                                                                         *)
(* Strings of the program are TLA+ strings; the operators below scan them  *)
(* character by character as the Python code and its library calls do.     *)
(* DNS answers and the published range document are the environment: each  *)
(* lookup or fetch draws its outcome from a small set.                     *)
(***************************************************************************)
EXTENDS Integers, Sequences, FiniteSets, TLC

(***************************************************************************)
(* Python's None, as a value distinct from every string of the model.      *)
(***************************************************************************)
None == "<None>"

(***************************************************************************)
(* Module constants.                                                       *)
(***************************************************************************)
\* dict: key -> URL, or None for a crawler without a machine-readable list
CRAWLER_IP_RANGE_SOURCES ==
    ("googlebot" :> "https://developers.google.com/search/apis/ipranges/googlebot.json")
 @@ ("google-special-crawlers" :> "https://developers.google.com/search/apis/ipranges/special-crawlers.json")
 @@ ("bingbot" :> None)

\* dict: key -> list of regular expressions.  Every expression of the table
\* is a literal suffix, or an alternation of literal suffixes, anchored by $:
\* each is written as the set of the literal suffixes it accepts.
CRAWLER_RDNS_PATTERNS ==
    ("googlebot" :> << {"googlebot.com"}, {"google.com"} >>)
 @@ ("bingbot" :> << {"search.msn.com"} >>)
 @@ ("applebot" :> << {"applebot.apple.com"} >>)
 @@ ("yandexbot" :> << {"yandex.ru", "yandex.net", "yandex.com"} >>)
 @@ ("duckduckbot" :> << {"duckduckgo.com"} >>)
 @@ ("baiduspider" :> << {"crawl.baidu.com", "crawl.baidu.jp"} >>)

\* dict in insertion order: <<fragment, crawler key>>
UA_TO_CRAWLER_KEY ==
    << <<"googlebot", "googlebot">>,
       <<"google-inspectiontool", "googlebot">>,
       <<"google-read-aloud", "googlebot">>,
       <<"mediapartners-google", "googlebot">>,
       <<"bingbot", "bingbot">>,
       <<"msnbot", "bingbot">>,
       <<"applebot", "applebot">>,
       <<"yandexbot", "yandexbot">>,
       <<"yandex", "yandexbot">>,
       <<"duckduckbot", "duckduckbot">>,
       <<"baiduspider", "baiduspider">> >>

\* seconds
IP_RANGE_CACHE_TTL == 4 * 3600

(***************************************************************************)
(* String helpers: str.lower, the in operator on strings, suffix match.    *)
(***************************************************************************)
Upper == <<"A","B","C","D","E","F","G","H","I","J","K","L","M",
           "N","O","P","Q","R","S","T","U","V","W","X","Y","Z">>
LowerLetters == <<"a","b","c","d","e","f","g","h","i","j","k","l","m",
           "n","o","p","q","r","s","t","u","v","w","x","y","z">>

CharAt(s, i) == SubSeq(s, i, i)

LowerChar(c) ==
    IF \E k \in 1..26 : Upper[k] = c
    THEN LowerLetters[CHOOSE k \in 1..26 : Upper[k] = c]
    ELSE c

RECURSIVE LowerFrom(_, _)
LowerFrom(s, i) ==
    IF i > Len(s) THEN "" ELSE LowerChar(CharAt(s, i)) \o LowerFrom(s, i + 1)

\* str.lower()
Lower(s) == LowerFrom(s, 1)

\* frag in s
Contains(s, frag) ==
    \E i \in 1..(Len(s) - Len(frag) + 1) : SubSeq(s, i, i + Len(frag) - 1) = frag

EndsWith(s, suffix) ==
    /\ Len(s) >= Len(suffix)
    /\ SubSeq(s, Len(s) - Len(suffix) + 1, Len(s)) = suffix

\* re.search(pattern, hostname, re.IGNORECASE) for the patterns of
\* CRAWLER_RDNS_PATTERNS (the names of the model hold no line break, so $
\* is the end of the name)
PatternMatches(pattern, hostname) ==
    \E suffix \in pattern : EndsWith(Lower(hostname), suffix)

(***************************************************************************)
(* extract_crawler_identity                                                *)
(***************************************************************************)
RECURSIVE FirstFragment(_, _)
FirstFragment(ua_lower, k) ==
    IF k > Len(UA_TO_CRAWLER_KEY) THEN None
    ELSE IF Contains(ua_lower, UA_TO_CRAWLER_KEY[k][1]) THEN UA_TO_CRAWLER_KEY[k][2]
    ELSE FirstFragment(ua_lower, k + 1)

\* mutant: the agent string is searched as it was sent
extract_crawler_identity_CaseSensitive(user_agent) == FirstFragment(user_agent, 1)

extract_crawler_identity(user_agent) == FirstFragment(Lower(user_agent), 1)

(***************************************************************************)
(* Text handling of the library calls the program makes.                   *)
(***************************************************************************)
\* str.split(sep) for a one-character separator
RECURSIVE SplitFrom(_, _, _, _)
SplitFrom(s, sep, i, cur) ==
    IF i > Len(s) THEN << cur >>
    ELSE IF CharAt(s, i) = sep THEN << cur >> \o SplitFrom(s, sep, i + 1, "")
    ELSE SplitFrom(s, sep, i + 1, cur \o CharAt(s, i))

Split(s, sep) == SplitFrom(s, sep, 1, "")

\* The socket calls encode a str host with the idna codec before any lookup;
\* for an ASCII name the codec raises UnicodeError when a label other than
\* the last is empty, or any label has 64 characters or more.  UnicodeError
\* is a ValueError, not an OSError.
IdnaEncodeFails(host) ==
    LET labels == Split(host, ".")
        n == Len(labels)
    IN  \/ \E k \in 1..(n - 1) : Len(labels[k]) = 0 \/ Len(labels[k]) >= 64
        \/ Len(labels[n]) >= 64

DigitChars == <<"0","1","2","3","4","5","6","7","8","9">>

IsDigit(c) == \E k \in 1..10 : DigitChars[k] = c

DigitValue(c) == (CHOOSE k \in 1..10 : DigitChars[k] = c) - 1

AllDigits(s) == Len(s) > 0 /\ \A i \in 1..Len(s) : IsDigit(CharAt(s, i))

RECURSIVE DecimalFrom(_, _, _)
DecimalFrom(s, i, acc) ==
    IF i > Len(s) THEN acc ELSE DecimalFrom(s, i + 1, 10 * acc + DigitValue(CharAt(s, i)))

\* int(s) for a string of at most three decimal digits
Decimal(s) == DecimalFrom(s, 1, 0)

\* the value a failed parse stands for (ValueError raised)
Invalid == [version |-> 0, octets |-> << >>, prefixlen |-> 0]

\* ipaddress.IPv4Address._parse_octet: decimal digits only, at most three,
\* no leading zero, at most 255
OctetOk(o) ==
    /\ AllDigits(o)
    /\ Len(o) <= 3
    /\ (o = "0" \/ CharAt(o, 1) # "0")
    /\ Decimal(o) <= 255

\* ipaddress.ip_address(ip) on the address strings of the model (dotted
\* quads and strings that are no address; no IPv6 literal is among them)
ipaddress_ip_address(ip) ==
    LET parts == Split(ip, ".")
    IN  IF Len(parts) = 4 /\ \A k \in 1..4 : OctetOk(parts[k])
        THEN [version |-> 4, octets |-> [k \in 1..4 |-> Decimal(parts[k])],
              prefixlen |-> 32]
        ELSE Invalid

Pow2(n) == IF n = 0 THEN 1 ELSE IF n = 1 THEN 2 ELSE IF n = 2 THEN 4
           ELSE IF n = 3 THEN 8 ELSE IF n = 4 THEN 16 ELSE IF n = 5 THEN 32
           ELSE IF n = 6 THEN 64 ELSE IF n = 7 THEN 128 ELSE 256

\* how many of the prefixlen leading bits fall into octet k
BitsIn(prefixlen, k) ==
    LET b == prefixlen - 8 * (k - 1)
    IN  IF b < 0 THEN 0 ELSE IF b > 8 THEN 8 ELSE b

\* octet k with the host bits cleared
MaskOctet(o, prefixlen, k) ==
    LET unit == Pow2(8 - BitsIn(prefixlen, k))
    IN  (o \div unit) * unit

\* ipaddress.ip_network(cidr, strict=False) on "a.b.c.d" and "a.b.c.d/n"
\* (n in decimal digits); host bits are cleared, not rejected
ipaddress_ip_network(cidr) ==
    LET halves == Split(cidr, "/")
        addr == ipaddress_ip_address(halves[1])
        plenOk == Len(halves) = 1
                  \/ (Len(halves) = 2 /\ AllDigits(halves[2]) /\ Len(halves[2]) <= 3
                      /\ Decimal(halves[2]) <= 32)
        plen == IF Len(halves) = 1 THEN 32 ELSE Decimal(halves[2])
    IN  IF addr # Invalid /\ plenOk
        THEN [version |-> 4,
              octets |-> [k \in 1..4 |-> MaskOctet(addr.octets[k], plen, k)],
              prefixlen |-> plen]
        ELSE Invalid

\* ip_obj in network
InNetwork(ip_obj, network) ==
    /\ ip_obj.version = network.version
    /\ \A k \in 1..4 :
          MaskOctet(ip_obj.octets[k], network.prefixlen, k) = network.octets[k]

(***************************************************************************)
(* Bounds and the inputs the model draws from.                             *)
(***************************************************************************)
\* how many times the clock advances in one behaviour
MaxTicks == 2

\* the clock advances by one second or by one second less than the TTL, so
\* that ages just below, at and above the TTL all occur
TickSteps == {1, IP_RANGE_CACHE_TTL - 1}

\* the threads of the host that call is_verified_crawler
Threads == {1, 2}

\* request source addresses: inside the published range, outside it, no
\* address at all, and a string with an empty label
IpAddresses == {"66.249.66.1", "5.9.0.1", "999.1.1.1", "1..2"}

\* declared agent strings: a crawler with a range source, one whose source
\* is None, one that is not listed in the sources, a browser, one that holds
\* two fragments of one crawler, and one that names two crawlers
UserAgents == {"Mozilla/5.0 (compatible; Googlebot/2.1)", "bingbot/2.0",
               "Applebot/0.1", "Chrome/121.0.0.0 Safari/537.36",
               "YandexBot/3.0 (+http://yandex.com/bots)",
               "bingbot/2.0 (like Googlebot)"}

\* names a reverse lookup may return
Hostnames == {"crawl-66-249-66-1.GoogleBot.com",
              "msnbot-157-55-39-1.search.msn.com",
              "static.1.0.9.5.clients.your-server.de"}

\* outcome markers of the environment
Fail == "<fail>"
Raise == "<raise>"

\* socket.gethostbyaddr(ip): UnicodeError from the idna codec before any
\* lookup, else herror/gaierror/OSError (Fail) or a name
ReverseOutcomes(ip) ==
    IF IdnaEncodeFails(ip) THEN {Raise} ELSE {Fail} \cup Hostnames

\* socket.getaddrinfo(hostname, None): gaierror/OSError (ok = FALSE), or the
\* addresses of the name in their canonical text form
ForwardAnswers == {{"66.249.66.1"}, {"5.9.0.1", "66.249.95.255"}}

ForwardOutcomes ==
    {[ok |-> FALSE, addrs |-> {}]} \cup {[ok |-> TRUE, addrs |-> a] : a \in ForwardAnswers}

\* the JSON values a range source may answer with; a prefix entry is a record
\* (dict) with optional ipv4Prefix / ipv6Prefix fields, or some other value
Entry(v4, v6) == [isdict |-> TRUE, ipv4Prefix |-> v4, ipv6Prefix |-> v6]

NotARecord == [isdict |-> FALSE, ipv4Prefix |-> None, ipv6Prefix |-> None]

Document(entries) == [error |-> FALSE, isdict |-> TRUE, prefixes |-> entries]

Documents ==
    { Document(<< Entry("66.249.64.0/19", None) >>),
      Document(<< >>),
      Document(<< Entry("not-a-cidr", None), Entry(None, ""),
                  Entry("66.249.64.0/27", None), Entry("66.249.64.0/19", None) >>),
      Document(<< NotARecord, Entry("66.249.64.0/19", None) >>),
      [error |-> FALSE, isdict |-> FALSE, prefixes |-> << >>] }

\* urlopen + resp.read + json.loads: an exception (transport error, timeout,
\* HTTP error status, invalid JSON: error = TRUE) or the decoded value
FetchOutcomes ==
    {[error |-> TRUE, isdict |-> FALSE, prefixes |-> << >>]} \cup Documents

(***************************************************************************)
(* State.                                                                  *)
(***************************************************************************)
VARIABLES
    cache,      \* _ip_range_cache: crawler key -> [ranges, cached_at]
    clock,      \* time.time(), in whole seconds
    ticks,      \* how many times the clock has advanced
    pc,         \* per thread: where its call of is_verified_crawler stands
    frame,      \* per thread: the arguments and locals of its latest call
    result      \* per thread: what its latest call returned or raised

vars == << cache, clock, ticks, pc, frame, result >>

\* no call made yet / call in progress
NoFrame ==
    [ip_address |-> "", user_agent |-> "", require_both_checks |-> FALSE,
     claimed_crawler |-> None,
     hostname |-> None, forward_done |-> FALSE, forward_name |-> None,
     forward_ips |-> {},
     rdns_verified |-> FALSE, rdns_hostname |-> None,
     now |-> 0, lookup |-> "none", fetch |-> "none", response |-> << >>,
     ranges |-> << >>]

NoResult ==
    [kind |-> "none", ip_address |-> "", user_agent |-> "",
     claimed_crawler |-> None, rdns_hostname |-> None, rdns_verified |-> FALSE,
     ip_range_verified |-> FALSE, is_legitimate |-> FALSE, reason |-> ""]

\* an exception left is_verified_crawler: no CrawlerVerificationResult
Raised(ip, ua) ==
    [NoResult EXCEPT !.kind = "raised", !.ip_address = ip, !.user_agent = ua]

Init ==
    /\ cache = << >>
    /\ clock = 0
    /\ ticks = 0
    /\ pc = [t \in Threads |-> "idle"]
    /\ frame = [t \in Threads |-> NoFrame]
    /\ result = [t \in Threads |-> NoResult]

(***************************************************************************)
(* verify_rdns, given what the two lookups answer.                         *)
(***************************************************************************)
\* reverse_dns_lookup: the name, or None on herror/gaierror/OSError
reverse_dns_lookup(rev) == IF rev = Fail THEN None ELSE rev

\* forward_dns_lookup: the addresses, or [] on gaierror/OSError
forward_dns_lookup(fwd) == IF fwd.ok THEN fwd.addrs ELSE {}

\* CRAWLER_RDNS_PATTERNS.get(crawler_key, [])
PatternsOf(crawler_key) ==
    IF crawler_key \in DOMAIN CRAWLER_RDNS_PATTERNS
    THEN CRAWLER_RDNS_PATTERNS[crawler_key] ELSE << >>

\* mutant: the name is tried against the patterns of every crawler
HostnameMatches_AnyCrawler(hostname, crawler_key) ==
    \E key \in DOMAIN CRAWLER_RDNS_PATTERNS :
        \E k \in 1..Len(CRAWLER_RDNS_PATTERNS[key]) :
            PatternMatches(CRAWLER_RDNS_PATTERNS[key][k], hostname)

HostnameMatches(hostname, crawler_key) ==
    \E k \in 1..Len(PatternsOf(crawler_key)) :
        PatternMatches(PatternsOf(crawler_key)[k], hostname)

\* mutant: any forward answer confirms
ForwardConfirms_AnyAnswer(ip, forward_ips) == forward_ips # {}

\* ip in forward_ips: equality of the address strings
ForwardConfirms(ip, forward_ips) == ip \in forward_ips

\* mutant: the forward lookup is made before the name is tried against the
\* patterns
verify_rdns_ForwardFirst(ip, crawler_key, rev, fwd) ==
    LET hostname == reverse_dns_lookup(rev)
        forward_ips == forward_dns_lookup(fwd)
    IN  IF hostname = None \/ hostname = ""
        THEN [verified |-> FALSE, rdns_hostname |-> None, hostname |-> hostname,
              forward_done |-> FALSE, forward_name |-> None, forward_ips |-> {}]
        ELSE IF ~HostnameMatches(hostname, crawler_key)
        THEN [verified |-> FALSE, rdns_hostname |-> hostname, hostname |-> hostname,
              forward_done |-> TRUE, forward_name |-> hostname,
              forward_ips |-> forward_ips]
        ELSE [verified |-> ForwardConfirms(ip, forward_ips),
              rdns_hostname |-> hostname, hostname |-> hostname,
              forward_done |-> TRUE, forward_name |-> hostname,
              forward_ips |-> forward_ips]

\* mutant: a failed reverse lookup counts as a passed check
verify_rdns_FailedLookupPasses(ip, crawler_key, rev, fwd) ==
    LET hostname == reverse_dns_lookup(rev)
        forward_ips == forward_dns_lookup(fwd)
    IN  IF hostname = None \/ hostname = ""
        THEN [verified |-> TRUE, rdns_hostname |-> None, hostname |-> hostname,
              forward_done |-> FALSE, forward_name |-> None, forward_ips |-> {}]
        ELSE IF ~HostnameMatches(hostname, crawler_key)
        THEN [verified |-> FALSE, rdns_hostname |-> hostname, hostname |-> hostname,
              forward_done |-> FALSE, forward_name |-> None, forward_ips |-> {}]
        ELSE [verified |-> ForwardConfirms(ip, forward_ips),
              rdns_hostname |-> hostname, hostname |-> hostname,
              forward_done |-> TRUE, forward_name |-> hostname,
              forward_ips |-> forward_ips]

\* mutant: a name that matches no pattern is dropped from the answer
verify_rdns_DropsUnmatchedName(ip, crawler_key, rev, fwd) ==
    LET hostname == reverse_dns_lookup(rev)
        forward_ips == forward_dns_lookup(fwd)
    IN  IF hostname = None \/ hostname = ""
        THEN [verified |-> FALSE, rdns_hostname |-> None, hostname |-> hostname,
              forward_done |-> FALSE, forward_name |-> None, forward_ips |-> {}]
        ELSE IF ~HostnameMatches(hostname, crawler_key)
        THEN [verified |-> FALSE, rdns_hostname |-> None, hostname |-> hostname,
              forward_done |-> FALSE, forward_name |-> None, forward_ips |-> {}]
        ELSE [verified |-> ForwardConfirms(ip, forward_ips),
              rdns_hostname |-> hostname, hostname |-> hostname,
              forward_done |-> TRUE, forward_name |-> hostname,
              forward_ips |-> forward_ips]

verify_rdns(ip, crawler_key, rev, fwd) ==
    LET hostname == reverse_dns_lookup(rev)
        forward_ips == forward_dns_lookup(fwd)
    IN  IF hostname = None \/ hostname = ""
        THEN [verified |-> FALSE, rdns_hostname |-> None, hostname |-> hostname,
              forward_done |-> FALSE, forward_name |-> None, forward_ips |-> {}]
        ELSE IF ~HostnameMatches(hostname, crawler_key)
        THEN [verified |-> FALSE, rdns_hostname |-> hostname, hostname |-> hostname,
              forward_done |-> FALSE, forward_name |-> None, forward_ips |-> {}]
        ELSE [verified |-> ForwardConfirms(ip, forward_ips),
              rdns_hostname |-> hostname, hostname |-> hostname,
              forward_done |-> TRUE, forward_name |-> hostname,
              forward_ips |-> forward_ips]

(***************************************************************************)
(* fetch_ip_ranges, in the steps another thread can interleave with.       *)
(***************************************************************************)
\* truth value of an Optional[str]
Truthy(v) == v # None /\ v # ""

\* mutant: an identity without a source is given the first source of the table
SourceOf_FallsBack(crawler_key) ==
    IF crawler_key \in DOMAIN CRAWLER_IP_RANGE_SOURCES
       /\ CRAWLER_IP_RANGE_SOURCES[crawler_key] # None
    THEN CRAWLER_IP_RANGE_SOURCES[crawler_key]
    ELSE CRAWLER_IP_RANGE_SOURCES["googlebot"]

\* CRAWLER_IP_RANGE_SOURCES.get(crawler_key)
SourceOf(crawler_key) ==
    IF crawler_key \in DOMAIN CRAWLER_IP_RANGE_SOURCES
    THEN CRAWLER_IP_RANGE_SOURCES[crawler_key] ELSE None

\* mutant: an entry aged exactly the TTL still counts as fresh
CacheFresh_Inclusive(now, cached_at) == now - cached_at <= IP_RANGE_CACHE_TTL

\* now - cached_at < IP_RANGE_CACHE_TTL
CacheFresh(now, cached_at) == now - cached_at < IP_RANGE_CACHE_TTL

\* mutant: a cached empty list does not count as a hit
CacheHit_EmptyIsMiss(c, crawler_key, now) ==
    /\ crawler_key \in DOMAIN c
    /\ CacheFresh(now, c[crawler_key].cached_at)
    /\ c[crawler_key].ranges # << >>

\* the cached list is served
CacheHit(c, crawler_key, now) ==
    /\ crawler_key \in DOMAIN c
    /\ CacheFresh(now, c[crawler_key].cached_at)

\* prefix_entry.get("ipv4Prefix") or prefix_entry.get("ipv6Prefix")
CidrOf(prefix_entry) ==
    IF Truthy(prefix_entry.ipv4Prefix) THEN prefix_entry.ipv4Prefix
    ELSE prefix_entry.ipv6Prefix

\* the loop over data.get("prefixes", []): an entry without .get raises
\* AttributeError, which leaves the loop and the try block
RECURSIVE CollectRanges(_, _, _)
CollectRanges(prefixes, i, ranges) ==
    IF i > Len(prefixes) THEN [ok |-> TRUE, ranges |-> ranges]
    ELSE IF ~prefixes[i].isdict THEN [ok |-> FALSE, ranges |-> << >>]
    ELSE IF Truthy(CidrOf(prefixes[i]))
         THEN CollectRanges(prefixes, i + 1, Append(ranges, CidrOf(prefixes[i])))
         ELSE CollectRanges(prefixes, i + 1, ranges)

\* mutant: an exception in the try block counts as an empty list
ParseFetched_FailureIsEmpty(out) ==
    IF out.error \/ ~out.isdict THEN [ok |-> TRUE, ranges |-> << >>]
    ELSE CollectRanges(out.prefixes, 1, << >>)

\* the try block up to the loop's end: ok = FALSE when an exception was raised
ParseFetched(out) ==
    IF out.error \/ ~out.isdict THEN [ok |-> FALSE, ranges |-> << >>]
    ELSE CollectRanges(out.prefixes, 1, << >>)

\* mutant: a failed fetch answers with a list that holds every address
RangesOnFailure_Everything(c, crawler_key) == << "0.0.0.0/0" >>

\* what the except branch returns
RangesOnFailure(c, crawler_key) == << >>

\* mutant: an existing entry gets the new list but keeps its old timestamp
CacheStore_KeepsOldTime(c, crawler_key, ranges, now) ==
    (crawler_key :> [ranges |-> ranges,
                     cached_at |-> IF crawler_key \in DOMAIN c
                                   THEN c[crawler_key].cached_at ELSE now]) @@ c

\* _ip_range_cache[crawler_key] = (ranges, now)
CacheStore(c, crawler_key, ranges, now) ==
    (crawler_key :> [ranges |-> ranges, cached_at |-> now]) @@ c

(***************************************************************************)
(* verify_ip_range, given the list fetch_ip_ranges returned.               *)
(***************************************************************************)
\* mutant: the first unparseable entry ends the loop
RECURSIVE AnyNetworkHolds_StopsAtBad(_, _, _)
AnyNetworkHolds_StopsAtBad(ip_obj, ranges, i) ==
    IF i > Len(ranges) THEN FALSE
    ELSE LET network == ipaddress_ip_network(ranges[i])
         IN  IF network = Invalid THEN FALSE
             ELSE IF InNetwork(ip_obj, network) THEN TRUE
             ELSE AnyNetworkHolds_StopsAtBad(ip_obj, ranges, i + 1)

\* the loop over ranges: an unparseable entry is skipped
RECURSIVE AnyNetworkHolds(_, _, _)
AnyNetworkHolds(ip_obj, ranges, i) ==
    IF i > Len(ranges) THEN FALSE
    ELSE LET network == ipaddress_ip_network(ranges[i])
         IN  IF network # Invalid /\ InNetwork(ip_obj, network) THEN TRUE
             ELSE AnyNetworkHolds(ip_obj, ranges, i + 1)

verify_ip_range(ip, ranges) ==
    IF ranges = << >> THEN FALSE
    ELSE LET ip_obj == ipaddress_ip_address(ip)
         IN  IF ip_obj = Invalid THEN FALSE
             ELSE AnyNetworkHolds(ip_obj, ranges, 1)

(***************************************************************************)
(* The verdict of is_verified_crawler.                                     *)
(***************************************************************************)
\* require_both_checks with a published range list: both checks
BothChecks(rdns_verified, ip_range_verified) ==
    LET is_legitimate == rdns_verified /\ ip_range_verified
    IN  [is_legitimate |-> is_legitimate,
         reason |-> IF is_legitimate THEN "Verified via rDNS and IP range"
                    ELSE "Failed one or both verification checks"]

\* mutant: a crawler without a published range list is taken at its word
RdnsOnly_Accepts(claimed_crawler, rdns_verified) ==
    [is_legitimate |-> TRUE,
     reason |-> "Verified via rDNS (no published IP ranges for "
                \o claimed_crawler \o ")"]

\* require_both_checks without a published range list: rDNS alone
RdnsOnly(claimed_crawler, rdns_verified) ==
    [is_legitimate |-> rdns_verified,
     reason |-> IF rdns_verified
                THEN "Verified via rDNS (no published IP ranges for "
                     \o claimed_crawler \o ")"
                ELSE "rDNS verification failed"]

\* the default: either check
EitherCheck(claimed_crawler, rdns_verified, ip_range_verified) ==
    [is_legitimate |-> rdns_verified \/ ip_range_verified,
     reason |-> IF rdns_verified /\ ip_range_verified
                    THEN "Verified via rDNS and IP range"
                ELSE IF rdns_verified THEN "Verified via rDNS"
                ELSE IF ip_range_verified THEN "Verified via IP range"
                ELSE "Impersonation detected: claims to be " \o claimed_crawler
                     \o " but verification failed"]

\* mutant: the default policy asks for both checks as well
Verdict_DefaultBoth(claimed_crawler, rdns_verified, ip_range_verified, require_both_checks) ==
    IF require_both_checks /\ ~Truthy(SourceOf(claimed_crawler))
    THEN RdnsOnly(claimed_crawler, rdns_verified)
    ELSE BothChecks(rdns_verified, ip_range_verified)

\* mutant: require_both_checks is ignored
Verdict_FlagIgnored(claimed_crawler, rdns_verified, ip_range_verified, require_both_checks) ==
    EitherCheck(claimed_crawler, rdns_verified, ip_range_verified)

\* mutant: require_both_checks asks for both checks of every crawler
Verdict_NoSourceTest(claimed_crawler, rdns_verified, ip_range_verified, require_both_checks) ==
    IF require_both_checks
    THEN BothChecks(rdns_verified, ip_range_verified)
    ELSE EitherCheck(claimed_crawler, rdns_verified, ip_range_verified)

Verdict(claimed_crawler, rdns_verified, ip_range_verified, require_both_checks) ==
    IF require_both_checks
    THEN IF Truthy(SourceOf(claimed_crawler))
         THEN BothChecks(rdns_verified, ip_range_verified)
         ELSE RdnsOnly(claimed_crawler, rdns_verified)
    ELSE EitherCheck(claimed_crawler, rdns_verified, ip_range_verified)

\* mutant: an agent string no fragment occurs in is let through
UnrecognizedResult_FailOpen(ip, ua) ==
    [kind |-> "result", ip_address |-> ip, user_agent |-> ua,
     claimed_crawler |-> None, rdns_hostname |-> None, rdns_verified |-> FALSE,
     ip_range_verified |-> FALSE, is_legitimate |-> TRUE,
     reason |-> "User-Agent does not claim to be a known search crawler"]

\* the result returned for an agent string no fragment occurs in
UnrecognizedResult(ip, ua) ==
    [kind |-> "result", ip_address |-> ip, user_agent |-> ua,
     claimed_crawler |-> None, rdns_hostname |-> None, rdns_verified |-> FALSE,
     ip_range_verified |-> FALSE, is_legitimate |-> FALSE,
     reason |-> "User-Agent does not claim to be a known search crawler"]

(***************************************************************************)
(* The string functions above, evaluated once for each input of the model. *)
(***************************************************************************)
\* the keys is_verified_crawler can classify an agent string as
CrawlerKeys == {UA_TO_CRAWLER_KEY[k][2] : k \in 1..Len(UA_TO_CRAWLER_KEY)}

\* extract_crawler_identity(user_agent)
ClaimedCrawler == [ua \in UserAgents |-> extract_crawler_identity(ua)]

\* the outcomes gethostbyaddr(ip) can have
ReverseOutcomesOf == [ip \in IpAddresses |-> ReverseOutcomes(ip)]

\* verify_rdns(ip, crawler_key) under each answer of the two lookups
VerifyRdns ==
    [ip \in IpAddresses, key \in CrawlerKeys, rev \in {Fail} \cup Hostnames,
     fwd \in ForwardOutcomes |-> verify_rdns(ip, key, rev, fwd)]

\* the lists fetch_ip_ranges can return
RangeLists ==
    {ParseFetched(out).ranges : out \in FetchOutcomes}
        \cup {RangesOnFailure(<< >>, key) : key \in CrawlerKeys}

\* the rest of verify_ip_range(ip, crawler_key), given the list
VerifyIpRange == [ip \in IpAddresses, ranges \in RangeLists |-> verify_ip_range(ip, ranges)]

(***************************************************************************)
(* Actions.                                                                *)
(***************************************************************************)
\* is_verified_crawler is called and classifies the agent string; an
\* unrecognised one is answered at once
Call(t, ips, uas) ==
    /\ pc[t] = "idle"
    /\ \E ip \in ips, ua \in uas, rb \in BOOLEAN :
         LET claimed == ClaimedCrawler[ua]
             args == [NoFrame EXCEPT !.ip_address = ip, !.user_agent = ua,
                                     !.require_both_checks = rb,
                                     !.claimed_crawler = claimed]
         IN  /\ frame' = [frame EXCEPT ![t] = args]
             /\ IF ~Truthy(claimed)
                THEN /\ result' = [result EXCEPT ![t] = UnrecognizedResult(ip, ua)]
                     /\ pc' = pc
                ELSE /\ result' = [result EXCEPT ![t] = NoResult]
                     /\ pc' = [pc EXCEPT ![t] = "rdns"]
    /\ UNCHANGED << cache, clock, ticks >>

\* verify_rdns runs: the reverse lookup and, when the code reaches it, the
\* forward lookup answer; an exception the lookups do not catch leaves
\* is_verified_crawler
RdnsCheck(t, names, answers) ==
    /\ pc[t] = "rdns"
    /\ \E rev \in ReverseOutcomesOf[frame[t].ip_address] \cap ({Raise, Fail} \cup names),
          fwd \in answers :
         IF rev = Raise
         THEN /\ result' = [result EXCEPT ![t] =
                     Raised(frame[t].ip_address, frame[t].user_agent)]
              /\ pc' = [pc EXCEPT ![t] = "idle"]
              /\ frame' = frame
         ELSE LET r == VerifyRdns[frame[t].ip_address, frame[t].claimed_crawler, rev, fwd]
              IN  /\ frame' = [frame EXCEPT ![t].hostname = r.hostname,
                                            ![t].forward_done = r.forward_done,
                                            ![t].forward_name = r.forward_name,
                                            ![t].forward_ips = r.forward_ips,
                                            ![t].rdns_verified = r.verified,
                                            ![t].rdns_hostname = r.rdns_hostname]
                  /\ pc' = [pc EXCEPT ![t] = "range"]
                  /\ result' = result
    /\ UNCHANGED << cache, clock, ticks >>

\* verify_ip_range calls fetch_ip_ranges: the time is read and the cache and
\* the source table are consulted
FetchLookup(t) ==
    /\ pc[t] = "range"
    /\ LET key == frame[t].claimed_crawler
       IN  IF CacheHit(cache, key, clock)
           THEN /\ frame' = [frame EXCEPT ![t].lookup = "hit",
                                          ![t].now = clock,
                                          ![t].ranges = cache[key].ranges]
                /\ pc' = [pc EXCEPT ![t] = "match"]
           ELSE IF ~Truthy(SourceOf(key))
           THEN /\ frame' = [frame EXCEPT ![t].lookup = "nosource",
                                          ![t].now = clock,
                                          ![t].ranges = << >>]
                /\ pc' = [pc EXCEPT ![t] = "match"]
           ELSE /\ frame' = [frame EXCEPT ![t].now = clock,
                                 ![t].lookup = IF key \in DOMAIN cache THEN "stale"
                                               ELSE "absent"]
                /\ pc' = [pc EXCEPT ![t] = "net"]
    /\ UNCHANGED << cache, clock, ticks, result >>

\* the network call and the parsing of its answer
FetchNet(t, outcomes) ==
    /\ pc[t] = "net"
    /\ \E out \in outcomes :
         LET parsed == ParseFetched(out)
         IN  IF parsed.ok
             THEN /\ frame' = [frame EXCEPT ![t].response = << out >>,
                                                ![t].ranges = parsed.ranges]
                  /\ pc' = [pc EXCEPT ![t] = "store"]
             ELSE /\ frame' = [frame EXCEPT ![t].response = << out >>,
                         ![t].fetch = "failed",
                         ![t].ranges = RangesOnFailure(cache, frame[t].claimed_crawler)]
                  /\ pc' = [pc EXCEPT ![t] = "match"]
    /\ UNCHANGED << cache, clock, ticks, result >>

\* the parsed list is stored with the time read at the start of the call
FetchStore(t) ==
    /\ pc[t] = "store"
    /\ cache' = CacheStore(cache, frame[t].claimed_crawler, frame[t].ranges,
                           frame[t].now)
    /\ frame' = [frame EXCEPT ![t].fetch = "fetched"]
    /\ pc' = [pc EXCEPT ![t] = "match"]
    /\ UNCHANGED << clock, ticks, result >>

\* the rest of verify_ip_range, the verdict and the return
Finish(t) ==
    /\ pc[t] = "match"
    /\ LET f == frame[t]
           ip_range_verified == VerifyIpRange[f.ip_address, f.ranges]
           v == Verdict(f.claimed_crawler, f.rdns_verified, ip_range_verified,
                        f.require_both_checks)
       IN  result' = [result EXCEPT ![t] =
               [kind |-> "result", ip_address |-> f.ip_address,
                user_agent |-> f.user_agent,
                claimed_crawler |-> f.claimed_crawler,
                rdns_hostname |-> f.rdns_hostname,
                rdns_verified |-> f.rdns_verified,
                ip_range_verified |-> ip_range_verified,
                is_legitimate |-> v.is_legitimate, reason |-> v.reason]]
    /\ pc' = [pc EXCEPT ![t] = "idle"]
    /\ UNCHANGED << cache, clock, ticks, frame >>

\* time passes
Tick ==
    /\ ticks < MaxTicks
    /\ \E d \in TickSteps : clock' = clock + d
    /\ ticks' = ticks + 1
    /\ UNCHANGED << cache, pc, frame, result >>

\* one thread at a time calls is_verified_crawler
Next ==
    \/ Tick
    \/ Call(1, IpAddresses, UserAgents)
    \/ RdnsCheck(1, Hostnames, ForwardOutcomes)
    \/ FetchLookup(1)
    \/ FetchNet(1, FetchOutcomes)
    \/ FetchStore(1)
    \/ Finish(1)

Spec == Init /\ [][Next]_vars

\* the requests and answers of the concurrent runs: one crawler with a range
\* source, lookups that confirm it, and a source that answers with either of
\* two lists or not at all
ConcIpAddresses == {"66.249.66.1"}

ConcUserAgents == {"Mozilla/5.0 (compatible; Googlebot/2.1)"}

ConcHostnames == {"crawl-66-249-66-1.GoogleBot.com"}

ConcForwardOutcomes == {[ok |-> TRUE, addrs |-> {"66.249.66.1"}]}

ConcFetchOutcomes ==
    { [error |-> TRUE, isdict |-> FALSE, prefixes |-> << >>],
      Document(<< Entry("66.249.64.0/19", None) >>),
      Document(<< >>) }

\* the threads of the host call is_verified_crawler concurrently
NextConc ==
    \/ Tick
    \/ \E t \in Threads :
         \/ Call(t, ConcIpAddresses, ConcUserAgents)
         \/ RdnsCheck(t, ConcHostnames, ConcForwardOutcomes)
         \/ FetchLookup(t)
         \/ FetchNet(t, ConcFetchOutcomes)
         \/ FetchStore(t)
         \/ Finish(t)

SpecConc == Init /\ [][NextConc]_vars

\* socket.gethostbyaddr and socket.getaddrinfo are called without any
\* timeout: when the name server never answers and the resolver of the host
\* does not give up, the call does not come back
LookupNeverAnswers(t) ==
    /\ pc[t] = "rdns"
    /\ pc' = [pc EXCEPT ![t] = "blocked"]
    /\ UNCHANGED << cache, clock, ticks, frame, result >>

\* the steps of a call in progress; urlopen runs with timeout=10, so the
\* fetch always ends, with an answer or with an error
Progress(t) ==
    \/ RdnsCheck(t, ConcHostnames, ForwardOutcomes)
    \/ FetchLookup(t)
    \/ FetchNet(t, ConcFetchOutcomes)
    \/ FetchStore(t)
    \/ Finish(t)

\* one thread calls is_verified_crawler while peers may stay silent
NextStall ==
    \/ Tick
    \/ Call(1, IpAddresses, ConcUserAgents)
    \/ Progress(1)
    \/ LookupNeverAnswers(1)

\* every step that can come back does come back
SpecStall == Init /\ [][NextStall]_vars /\ WF_vars(Progress(1))

(***************************************************************************)
(* Properties.                                                             *)
(***************************************************************************)
\* thread t holds the CrawlerVerificationResult of its latest call
Returned(t) == pc[t] = "idle" /\ result[t].kind = "result"

\* the latest call of thread t classified its agent string as a crawler
Recognised(t) == Truthy(frame[t].claimed_crawler)

\* the latest call of thread t classified its agent string as a crawler
\* with a configured range source
HasSource(t) == Truthy(SourceOf(frame[t].claimed_crawler))

\* C1: under the default policy (require_both_checks = False) the verdict for
\* a recognised identity is rdns_verified OR ip_range_verified, and a result
\* verified by the range check alone carries the range-only justification.
C1_DefaultEitherCheck ==
    \A t \in Threads :
        Returned(t) /\ Recognised(t) /\ ~frame[t].require_both_checks
        => /\ result[t].is_legitimate
                = (result[t].rdns_verified \/ result[t].ip_range_verified)
           /\ (~result[t].rdns_verified /\ result[t].ip_range_verified
                 => result[t].reason = "Verified via IP range")

\* C1 witness: the reverse lookup failed, the address is inside a published
\* range, and the default policy accepted the request on the range alone.
C1_Witness ==
    \E t \in Threads :
        /\ Returned(t) /\ Recognised(t) /\ ~frame[t].require_both_checks
        /\ frame[t].hostname = None
        /\ ~result[t].rdns_verified /\ result[t].ip_range_verified
        /\ result[t].is_legitimate
        /\ result[t].reason = "Verified via IP range"

\* C2: with require_both_checks = True and a configured range source the
\* verdict is true exactly when the DNS check and the range check are both true.
C2_BothChecksWithSource ==
    \A t \in Threads :
        Returned(t) /\ Recognised(t) /\ frame[t].require_both_checks /\ HasSource(t)
        => result[t].is_legitimate
             = (result[t].rdns_verified /\ result[t].ip_range_verified)

\* C2 witness: both checks passed under require_both_checks for a crawler
\* with a range source, and the verdict is true.
C2_Witness ==
    \E t \in Threads :
        /\ Returned(t) /\ frame[t].require_both_checks /\ HasSource(t)
        /\ result[t].rdns_verified /\ result[t].ip_range_verified
        /\ result[t].is_legitimate

\* C3: with require_both_checks = True and no configured range source (the
\* source is None, or the identity is not listed) the verdict is the result of
\* the DNS check alone.
C3_RdnsAloneWithoutSource ==
    \A t \in Threads :
        Returned(t) /\ Recognised(t) /\ frame[t].require_both_checks /\ ~HasSource(t)
        => result[t].is_legitimate = result[t].rdns_verified

\* C3 witness: a crawler whose source is None passed the DNS check under
\* require_both_checks; its range check is false and the verdict is true.
C3_Witness ==
    \E t \in Threads :
        /\ Returned(t) /\ frame[t].require_both_checks
        /\ frame[t].claimed_crawler = "bingbot"
        /\ result[t].rdns_verified /\ ~result[t].ip_range_verified
        /\ result[t].is_legitimate

\* C4: a call whose agent string the classifier does not recognise returns
\* verdict false with the fixed justification, identity and hostname None and
\* both check flags false, whatever the address and require_both_checks.
C4_UnrecognisedRejected ==
    \A t \in Threads :
        frame[t] # NoFrame /\ ~Recognised(t)
        => /\ Returned(t)
           /\ result[t].ip_address = frame[t].ip_address
           /\ result[t].user_agent = frame[t].user_agent
           /\ result[t].claimed_crawler = None
           /\ result[t].rdns_hostname = None
           /\ ~result[t].rdns_verified
           /\ ~result[t].ip_range_verified
           /\ ~result[t].is_legitimate
           /\ result[t].reason
                = "User-Agent does not claim to be a known search crawler"

\* C4 witness: a browser's agent string was answered, from the address of
\* the published range and with require_both_checks set.
C4_Witness ==
    \E t \in Threads :
        /\ frame[t].user_agent = "Chrome/121.0.0.0 Safari/537.36"
        /\ frame[t].ip_address = "66.249.66.1"
        /\ frame[t].require_both_checks
        /\ Returned(t) /\ ~result[t].is_legitimate

\* the reverse lookup of thread t's latest call returned a name that matches
\* a suffix pattern of the claimed crawler
HostnameMatched == [h \in Hostnames, key \in CrawlerKeys |-> HostnameMatches(h, key)]

ReverseNameMatched(t) ==
    /\ frame[t].hostname \in Hostnames
    /\ HostnameMatched[frame[t].hostname, frame[t].claimed_crawler]

\* C5: when the reverse lookup returned a name that matches a suffix pattern
\* of the identity and the forward lookup of that name gave a set without
\* the source address (empty when the forward lookup failed), the DNS check
\* is false.
C5_ForgedReverseRejected ==
    \A t \in Threads :
        /\ pc[t] \in {"range", "net", "store", "match"} \/ Returned(t)
        /\ Recognised(t)
        /\ ReverseNameMatched(t)
        /\ frame[t].ip_address \notin frame[t].forward_ips
        => /\ ~frame[t].rdns_verified
           /\ (Returned(t) => ~result[t].rdns_verified)

\* C5 witness: a matching name whose forward lookup answered with other
\* addresses only; the result reports the DNS check as failed.
C5_Witness ==
    \E t \in Threads :
        /\ Returned(t) /\ Recognised(t) /\ ReverseNameMatched(t)
        /\ frame[t].forward_done
        /\ frame[t].forward_ips # {}
        /\ frame[t].ip_address \notin frame[t].forward_ips
        /\ ~result[t].rdns_verified

\* C6: when the cached entry is older than the TTL and the refetch fails,
\* fetch_ip_ranges returns the last successfully fetched list of the
\* identity, and the range check is made against that list.
C6_FailedRefetchServesLastGood ==
    \A t \in Threads :
        /\ pc[t] = "match" \/ Returned(t)
        /\ frame[t].lookup = "stale" /\ frame[t].fetch = "failed"
        => /\ frame[t].ranges = cache[frame[t].claimed_crawler].ranges
           /\ (Returned(t) => result[t].ip_range_verified
                 = VerifyIpRange[frame[t].ip_address,
                                 cache[frame[t].claimed_crawler].ranges])

\* C7: a call that finds an entry younger than the TTL issues no network call
\* and returns the cached list; a call that finds the entry aged the TTL or
\* more issues a network call; and a successful fetch stores its list with
\* the time read when the call looked the entry up.
C7_CacheRespectsTtl ==
    [][\A t \in Threads :
        LET key == frame[t].claimed_crawler
        IN  /\ (pc[t] = "range" /\ pc'[t] # "range" /\ key \in DOMAIN cache
                  => IF clock - cache[key].cached_at < IP_RANGE_CACHE_TTL
                     THEN /\ pc'[t] = "match"
                          /\ frame'[t].ranges = cache[key].ranges
                          /\ cache' = cache
                     ELSE /\ pc'[t] = "net"
                          /\ frame'[t].now = clock)
            /\ (pc[t] = "store" /\ pc'[t] # "store"
                  => /\ key \in DOMAIN cache'
                     /\ cache'[key].cached_at = frame[t].now
                     /\ cache'[key].ranges = frame[t].ranges)]_vars

\* C7 witness: an entry aged exactly the TTL was found stale, the refetch
\* succeeded and the entry now carries the time of that call.
C7_Witness ==
    \E t \in Threads :
        /\ frame[t].lookup = "stale" /\ frame[t].fetch = "fetched"
        /\ frame[t].now = IP_RANGE_CACHE_TTL
        /\ cache[frame[t].claimed_crawler].cached_at = IP_RANGE_CACHE_TTL

\* C8: when the fetch fails and the identity has no cache entry,
\* fetch_ip_ranges returns the empty list and the call returns a result whose
\* range check is false; nothing is raised.
C8_FailedFirstFetchIsEmpty ==
    \A t \in Threads :
        frame[t].lookup = "absent" /\ frame[t].fetch = "failed"
        => /\ frame[t].ranges = << >>
           /\ pc[t] = "match" \/ (Returned(t) /\ ~result[t].ip_range_verified)

\* C8 witness: the first fetch for googlebot failed and the call for the
\* address of the published range returned with the range check false.
C8_Witness ==
    \E t \in Threads :
        /\ frame[t].lookup = "absent" /\ frame[t].fetch = "failed"
        /\ frame[t].ip_address = "66.249.66.1"
        /\ Returned(t) /\ ~result[t].ip_range_verified

\* C9: is_verified_crawler never raises: a classification miss, a failed
\* lookup or fetch and malformed data all end in a returned result.
C9_NeverRaises ==
    \A t \in Threads : result[t].kind # "raised"

\* C10: under concurrent calls the timestamp of a cache entry never
\* decreases: the entry of a later-started successful fetch is not
\* overwritten by an earlier-started one.
C10_TimestampNeverDecreases ==
    [][\A key \in DOMAIN cache :
          key \in DOMAIN cache' /\ cache'[key].cached_at >= cache[key].cached_at]_vars

\* C11: an entry is replaced in one step by the list and the time of one
\* successful fetch, and a call served from the cache returns the list of the
\* very entry whose timestamp it tested: no list is ever paired with the
\* timestamp of another fetch, under any interleaving.
C11_EntryReplacedWhole ==
    [][/\ \A key \in DOMAIN cache' :
             key \notin DOMAIN cache \/ cache'[key] # cache[key]
             => \E t \in Threads :
                   /\ pc[t] = "store" /\ pc'[t] = "match"
                   /\ frame[t].claimed_crawler = key
                   /\ cache'[key] = [ranges |-> frame[t].ranges,
                                     cached_at |-> frame[t].now]
       /\ \A t \in Threads :
             pc[t] = "range" /\ pc'[t] = "match" /\ frame'[t].lookup = "hit"
             => /\ frame[t].claimed_crawler \in DOMAIN cache
                /\ frame'[t].ranges = cache[frame[t].claimed_crawler].ranges
                /\ clock - cache[frame[t].claimed_crawler].cached_at
                      < IP_RANGE_CACHE_TTL]_vars

\* C11 witness: one thread was served the old entry from the cache and has
\* not returned yet, while another thread found the entry stale and replaced
\* it with a different list.
C11_Witness ==
    \E t, u \in Threads :
        /\ t # u
        /\ pc[t] = "match" /\ frame[t].lookup = "hit"
        /\ pc[u] = "match" /\ frame[u].lookup = "stale" /\ frame[u].fetch = "fetched"
        /\ frame[u].claimed_crawler = frame[t].claimed_crawler
        /\ cache[frame[u].claimed_crawler].ranges = frame[u].ranges
        /\ frame[t].ranges # frame[u].ranges

\* C12: at any moment at most one network fetch is in progress for an
\* identity key.
C12_OneFetchPerKey ==
    \A t, u \in Threads :
        t # u /\ pc[t] = "net" /\ pc[u] = "net"
        => frame[t].claimed_crawler # frame[u].claimed_crawler

\* C13: two results for the same recognised identity under the same value of
\* require_both_checks whose (rdns_verified, ip_range_verified) pairs differ
\* carry different justifications.
C13_ReasonTellsOutcome ==
    \A t, u \in Threads :
        /\ Returned(t) /\ Returned(u) /\ Recognised(t)
        /\ frame[t].claimed_crawler = frame[u].claimed_crawler
        /\ frame[t].require_both_checks = frame[u].require_both_checks
        /\ << result[t].rdns_verified, result[t].ip_range_verified >>
              # << result[u].rdns_verified, result[u].ip_range_verified >>
        => result[t].reason # result[u].reason

\* the CIDR strings of the entries of a document that are records with an
\* ipv4Prefix or ipv6Prefix string, in document order
WellFormedCidrs(prefixes) ==
    LET wellformed(e) == e.isdict /\ (Truthy(e.ipv4Prefix) \/ Truthy(e.ipv6Prefix))
        kept == SelectSeq(prefixes, wellformed)
    IN  [i \in 1..Len(kept) |-> CidrOf(kept[i])]

\* C14: when the source answers with a document, the fetch does not fail:
\* it returns, and then caches, the CIDR strings of the well-formed entries
\* of that document, skipping each malformed entry on its own.
C14_MalformedEntrySkippedAlone ==
    \A t \in Threads :
        /\ frame[t].response # << >>
        /\ ~frame[t].response[1].error
        /\ frame[t].response[1].isdict
        => /\ frame[t].fetch # "failed"
           /\ frame[t].ranges = WellFormedCidrs(frame[t].response[1].prefixes)
           /\ frame[t].fetch = "fetched"
              => cache[frame[t].claimed_crawler].ranges
                    = WellFormedCidrs(frame[t].response[1].prefixes)

\* what ipaddress makes of each address and of each entry of a range list
ParsedAddress == [ip \in IpAddresses |-> ipaddress_ip_address(ip)]

CidrStrings == UNION {{ranges[i] : i \in 1..Len(ranges)} : ranges \in RangeLists}

ParsedNetwork == [cidr \in CidrStrings |-> ipaddress_ip_network(cidr)]

\* C15: the range check of a returned result is true exactly when the address
\* parses and lies inside at least one parseable network of the list the call
\* got, wherever the unparseable entries stand; a malformed address gives
\* false.
C15_ValidEntriesStillMatch ==
    \A t \in Threads :
        Returned(t) /\ Recognised(t)
        => result[t].ip_range_verified
              = /\ ParsedAddress[frame[t].ip_address] # Invalid
                /\ \E i \in 1..Len(frame[t].ranges) :
                      /\ ParsedNetwork[frame[t].ranges[i]] # Invalid
                      /\ InNetwork(ParsedAddress[frame[t].ip_address],
                                   ParsedNetwork[frame[t].ranges[i]])

\* C15 witness: a result with a passed range check although the list starts
\* with an unparseable entry followed by a network that does not hold the
\* address.
C15_Witness ==
    \E t \in Threads :
        /\ Returned(t) /\ result[t].ip_range_verified
        /\ Len(frame[t].ranges) >= 3
        /\ ParsedNetwork[frame[t].ranges[1]] = Invalid
        /\ ParsedNetwork[frame[t].ranges[2]] # Invalid
        /\ ~InNetwork(ParsedAddress[frame[t].ip_address],
                      ParsedNetwork[frame[t].ranges[2]])

\* C16: in a returned result of a recognised identity the hostname is null
\* exactly when the reverse lookup produced no name; a failed reverse lookup
\* gives (false, none), and a name that matches none of the identity's
\* patterns is returned together with false.
C16_HostnameKeptOnFailure ==
    \A t \in Threads :
        Returned(t) /\ Recognised(t)
        => /\ (result[t].rdns_hostname = None) = (frame[t].hostname = None)
           /\ frame[t].hostname = None => ~result[t].rdns_verified
           /\ frame[t].hostname # None
              => /\ result[t].rdns_hostname = frame[t].hostname
                 /\ ~ReverseNameMatched(t) => ~result[t].rdns_verified

\* C16 witness: a returned result whose reverse lookup gave a name outside
\* the identity's patterns: the check failed and the name is in the result.
C16_Witness ==
    \E t \in Threads :
        /\ Returned(t) /\ Recognised(t)
        /\ frame[t].hostname # None /\ ~ReverseNameMatched(t)
        /\ ~result[t].rdns_verified
        /\ result[t].rdns_hostname = frame[t].hostname

\* frag (lower case) occurs in s at some position, letter case ignored
OccursIgnoringCase(frag, s) ==
    \E i \in 0..(Len(s) - Len(frag)) :
        \A j \in 1..Len(frag) : LowerChar(CharAt(s, i + j)) = CharAt(frag, j)

\* per agent string, the table positions of the fragments that occur in it
FragmentsIn ==
    [ua \in UserAgents |->
        {k \in 1..Len(UA_TO_CRAWLER_KEY) : OccursIgnoringCase(UA_TO_CRAWLER_KEY[k][1], ua)}]

\* per agent string, the identity of the first of them in table order
FirstIdentityIn ==
    [ua \in UserAgents |->
        IF FragmentsIn[ua] = {} THEN None
        ELSE UA_TO_CRAWLER_KEY[CHOOSE k \in FragmentsIn[ua] :
                                  \A m \in FragmentsIn[ua] : k <= m][2]]


\* table positions of two fragments of which one holds the other
NestedFragments ==
    {p \in (1..Len(UA_TO_CRAWLER_KEY)) \X (1..Len(UA_TO_CRAWLER_KEY)) :
        p[1] # p[2] /\ Contains(UA_TO_CRAWLER_KEY[p[1]][1], UA_TO_CRAWLER_KEY[p[2]][1])}

\* two fragments of which one holds the other name the same identity
NestedFragmentsAgree ==
    \A p \in NestedFragments : UA_TO_CRAWLER_KEY[p[1]][2] = UA_TO_CRAWLER_KEY[p[2]][2]

\* C17: every call is classified as the identity of the first fragment, in
\* table order, that occurs in the agent string with letter case ignored,
\* and as none when no fragment occurs, so every call gets an answer; the
\* classifying step leaves cache and clock alone; two fragments of which one holds the other name the same identity.
C17_FirstFragmentWins ==
    [][/\ \A t \in Threads :
             /\ frame'[t] # NoFrame
                => frame'[t].claimed_crawler = FirstIdentityIn[frame'[t].user_agent]
             /\ result'[t].kind = "result"
                => result'[t].claimed_crawler = FirstIdentityIn[result'[t].user_agent]
             /\ pc[t] = "idle" /\ frame'[t] # frame[t]
                => cache' = cache /\ clock' = clock
       /\ NestedFragmentsAgree]_vars

\* C17 witness: a returned call whose agent string holds fragments of two
\* crawlers, the later one in table order standing first in the string, and
\* a table with nested fragments.
C17_Witness ==
    /\ NestedFragments # {}
    /\ \E t \in Threads :
          /\ Returned(t)
          /\ \E k, m \in FragmentsIn[frame[t].user_agent] :
                /\ k < m
                /\ UA_TO_CRAWLER_KEY[k][2] # UA_TO_CRAWLER_KEY[m][2]
                /\ result[t].claimed_crawler = UA_TO_CRAWLER_KEY[k][2]

\* the answers the two lookups of a finished call gave
ReverseAnswerOf(t) == IF frame[t].hostname = None THEN Fail ELSE frame[t].hostname

FailedForward == [ok |-> FALSE, addrs |-> {}]

ForwardAnswerOf(t) ==
    IF frame[t].forward_ips = {} THEN FailedForward
    ELSE [ok |-> TRUE, addrs |-> frame[t].forward_ips]

\* the verdict of the same call had its reverse lookup failed
VerdictWithReverseFailed(t) ==
    Verdict(frame[t].claimed_crawler,
            VerifyRdns[frame[t].ip_address, frame[t].claimed_crawler, Fail,
                       ForwardAnswerOf(t)].verified,
            result[t].ip_range_verified, frame[t].require_both_checks).is_legitimate

\* the verdict of the same call had its forward lookup failed
VerdictWithForwardFailed(t) ==
    Verdict(frame[t].claimed_crawler,
            VerifyRdns[frame[t].ip_address, frame[t].claimed_crawler,
                       ReverseAnswerOf(t), FailedForward].verified,
            result[t].ip_range_verified, frame[t].require_both_checks).is_legitimate

\* the verdict of the same call had its range fetch failed
VerdictWithFetchFailed(t) ==
    Verdict(frame[t].claimed_crawler, result[t].rdns_verified,
            VerifyIpRange[frame[t].ip_address,
                          RangesOnFailure(cache, frame[t].claimed_crawler)],
            frame[t].require_both_checks).is_legitimate

\* C18: for a returned call with verdict false, the same call with its
\* reverse lookup failed, with its forward lookup failed, or with its range
\* fetch failed (when the call fetched) has verdict false too.
C18_FailureNeverLegitimises ==
    \A t \in Threads :
        Returned(t) /\ Recognised(t) /\ ~result[t].is_legitimate
        => /\ ~VerdictWithReverseFailed(t)
           /\ ~VerdictWithForwardFailed(t)
           /\ frame[t].fetch = "fetched" => ~VerdictWithFetchFailed(t)

\* C18 witness: a call that passed both checks under require_both_checks,
\* with both lookups and the fetch successful; failing any one of the three
\* turns its verdict to false.
C18_Witness ==
    \E t \in Threads :
        /\ Returned(t) /\ Recognised(t) /\ result[t].is_legitimate
        /\ frame[t].require_both_checks
        /\ frame[t].forward_done /\ frame[t].fetch = "fetched"
        /\ ~VerdictWithReverseFailed(t)
        /\ ~VerdictWithForwardFailed(t)
        /\ ~VerdictWithFetchFailed(t)

\* C19: every call of is_verified_crawler eventually returns, whatever the
\* network peers do: no lookup and no fetch holds a call for ever.
C19_EveryCallReturns ==
    \A t \in Threads : (pc[t] # "idle") ~> (pc[t] = "idle")

\* C20: a finished call for a recognised identity has performed both checks,
\* whatever the outcome of the DNS check; its DNS result is what the answers
\* of its two lookups give and its range result what the list it got gives,
\* neither depending on the other check.
C20_BothChecksAlwaysRun ==
    \A t \in Threads :
        Recognised(t) /\ pc[t] = "idle" /\ result[t].kind # "none"
        => /\ result[t].kind = "result"
           /\ frame[t].lookup # "none"
           /\ result[t].rdns_verified
                 = VerifyRdns[frame[t].ip_address, frame[t].claimed_crawler,
                              ReverseAnswerOf(t), ForwardAnswerOf(t)].verified
           /\ result[t].ip_range_verified
                 = VerifyIpRange[frame[t].ip_address, frame[t].ranges]

\* the latest call of thread t is for a crawler whose entry in the source
\* table is missing or None
NoConfiguredSource(t) ==
    /\ Recognised(t)
    /\ \/ frame[t].claimed_crawler \notin DOMAIN CRAWLER_IP_RANGE_SOURCES
       \/ CRAWLER_IP_RANGE_SOURCES[frame[t].claimed_crawler] = None

\* C21: a call for an identity with no configured range source never reaches
\* the network call or the cache write and the identity never has a cache
\* entry; once the range lookup is done the list is empty, and the returned
\* range check is false whatever the address.
C21_NoSourceNoFetch ==
    \A t \in Threads :
        NoConfiguredSource(t)
        => /\ pc[t] \notin {"net", "store"}
           /\ frame[t].claimed_crawler \notin DOMAIN cache
           /\ frame[t].fetch = "none" /\ frame[t].response = << >>
           /\ frame[t].ranges = << >>
           /\ pc[t] = "match" \/ Returned(t) => frame[t].lookup = "nosource"
           /\ Returned(t) => ~result[t].ip_range_verified

\* C21 witness: a returned call for a crawler without a source, from an
\* address the published list of another crawler holds, while that list is
\* in the cache.
C21_Witness ==
    \E t \in Threads :
        /\ Returned(t) /\ NoConfiguredSource(t)
        /\ frame[t].lookup = "nosource"
        /\ frame[t].ip_address = "66.249.66.1"
        /\ \E key \in DOMAIN cache : VerifyIpRange[frame[t].ip_address, cache[key].ranges]
        /\ ~result[t].ip_range_verified

\* C22: in every result, under both policies, a true verdict comes with a
\* recognised identity and with at least one of rdns_verified and
\* ip_range_verified true.
C22_TrueVerdictHasSignal ==
    \A t \in Threads :
        result[t].kind = "result" /\ result[t].is_legitimate
        => /\ Truthy(result[t].claimed_crawler)
           /\ result[t].rdns_verified \/ result[t].ip_range_verified

\* C22 witness: a true verdict under require_both_checks that rests on the
\* DNS check alone, the range check having failed.
C22_Witness ==
    \E t \in Threads :
        /\ Returned(t) /\ result[t].is_legitimate
        /\ frame[t].require_both_checks
        /\ result[t].rdns_verified /\ ~result[t].ip_range_verified

\* per name and identity: the identity has patterns in CRAWLER_RDNS_PATTERNS
\* and the name, letter case ignored, ends with a suffix one of them accepts
EndsWithSuffixOf ==
    [h \in Hostnames, key \in CrawlerKeys |->
        /\ key \in DOMAIN CRAWLER_RDNS_PATTERNS
        /\ \E k \in 1..Len(CRAWLER_RDNS_PATTERNS[key]) :
              \E suffix \in CRAWLER_RDNS_PATTERNS[key][k] : EndsWith(Lower(h), suffix)]

\* C23: in every result rdns_verified is true only if the reverse lookup
\* returned a name, the name ends with a suffix of the patterns configured
\* for the classified identity (so an identity without patterns is never
\* verified), and the forward lookup of the name was made and its answer
\* holds the source address.
C23_RdnsVerifiedOnlyIf ==
    \A t \in Threads :
        Returned(t) /\ result[t].rdns_verified
        => /\ Recognised(t)
           /\ frame[t].hostname \in Hostnames
           /\ result[t].rdns_hostname = frame[t].hostname
           /\ EndsWithSuffixOf[frame[t].hostname, frame[t].claimed_crawler]
           /\ frame[t].forward_done
           /\ frame[t].ip_address \in frame[t].forward_ips

\* C23 witness: a DNS-verified result whose name matches in another letter
\* case and whose forward answer holds the source address among others.
C23_Witness ==
    \E t \in Threads :
        /\ Returned(t) /\ result[t].rdns_verified
        /\ frame[t].hostname = "crawl-66-249-66-1.GoogleBot.com"
        /\ frame[t].ip_address \in frame[t].forward_ips
        /\ Cardinality(frame[t].forward_ips) > 1

\* the keys of the source table that carry a URL
KeysWithSource ==
    {key \in DOMAIN CRAWLER_IP_RANGE_SOURCES : CRAWLER_IP_RANGE_SOURCES[key] # None}

\* C24: the cache changes only in the step that stores a fetched document,
\* and only in the entry of the identity that call asked for; every other
\* step (a call with an unrecognised agent, a call without a range source,
\* a call served from the cache, a failed fetch) leaves the whole cache as
\* it was; entries are never removed and exist only for identities with a
\* configured source.
C24_CacheChangesOnlyByFetch ==
    [][/\ cache' # cache
          => \E t \in Threads :
                /\ pc[t] = "store" /\ pc'[t] = "match"
                /\ frame[t].response # << >>
                /\ ~frame[t].response[1].error /\ frame[t].response[1].isdict
                /\ frame'[t].fetch = "fetched"
                /\ DOMAIN cache' = DOMAIN cache \cup {frame[t].claimed_crawler}
                /\ \A key \in DOMAIN cache :
                      key # frame[t].claimed_crawler => cache'[key] = cache[key]
       /\ DOMAIN cache \subseteq DOMAIN cache'
       /\ DOMAIN cache' \subseteq KeysWithSource
       /\ \A t \in Threads :
             (\/ frame'[t].fetch = "failed" /\ frame[t].fetch # "failed"
              \/ frame'[t].lookup \in {"hit", "nosource"} /\ frame[t].lookup = "none"
              \/ pc[t] = "idle" /\ frame'[t] # frame[t])
             => cache' = cache]_vars

\* C24 witness: a refetch has just failed and the stale entry is still in
\* the cache, older than the TTL.
C24_Witness ==
    \E t \in Threads :
        /\ pc[t] = "match"
        /\ frame[t].lookup = "stale" /\ frame[t].fetch = "failed"
        /\ frame[t].claimed_crawler \in DOMAIN cache
        /\ clock - cache[frame[t].claimed_crawler].cached_at >= IP_RANGE_CACHE_TTL
        /\ cache[frame[t].claimed_crawler].ranges # << >>

\* thread t asks for a crawler whose source is a URL
AsksKeyWithSource(t) == frame[t].claimed_crawler \in KeysWithSource

\* the entry of thread t's crawler is younger than the TTL at time now
FreshEntry(c, t, now) ==
    /\ frame[t].claimed_crawler \in DOMAIN c
    /\ now - c[frame[t].claimed_crawler].cached_at < IP_RANGE_CACHE_TTL

\* C25: a fetch that fails writes nothing, so no entry younger than the TTL
\* exists after it and the next lookup goes to the network again; a fetch
\* that succeeds is always stored, an empty list included; and a lookup goes
\* to the network exactly when the entry is missing or as old as the TTL,
\* whatever list the entry holds.
C25_OnlySuccessIsCached ==
    [][\A t \in Threads :
          /\ pc[t] = "range" /\ pc'[t] # "range" /\ AsksKeyWithSource(t)
             => (pc'[t] = "net") = ~FreshEntry(cache, t, clock)
          /\ pc[t] = "net" /\ pc'[t] # "net"
             => IF frame'[t].response[1].error \/ frame'[t].fetch = "failed"
                THEN /\ frame'[t].fetch = "failed" /\ pc'[t] = "match"
                     /\ cache' = cache
                     /\ ~FreshEntry(cache', t, clock')
                ELSE pc'[t] = "store"
          /\ pc[t] = "store" /\ pc'[t] # "store"
             => /\ frame'[t].fetch = "fetched"
                /\ cache'[frame[t].claimed_crawler]
                      = [ranges |-> frame[t].ranges, cached_at |-> frame[t].now]]_vars

\* C25 witness: a source answered with zero prefixes, the empty list was
\* stored, and a later call is served that empty list from the cache.
C25_Witness ==
    \E t \in Threads :
        /\ pc[t] = "match" /\ frame[t].lookup = "hit"
        /\ frame[t].ranges = << >>
        /\ cache[frame[t].claimed_crawler].ranges = << >>
        /\ frame[t].now > cache[frame[t].claimed_crawler].cached_at

\* C26: a forward lookup is made only after the reverse lookup returned a
\* name and the name matched a pattern of the identity, and it is made for
\* that very name; a name that fails the patterns gets no forward lookup;
\* a call with an unrecognised agent makes no lookup at all.
C26_LookupsInProtocolOrder ==
    \A t \in Threads :
        /\ frame[t].forward_done
           => /\ frame[t].hostname \in Hostnames
              /\ EndsWithSuffixOf[frame[t].hostname, frame[t].claimed_crawler]
              /\ frame[t].forward_name = frame[t].hostname
        /\ ~frame[t].forward_done
           => frame[t].forward_name = None /\ frame[t].forward_ips = {}
        /\ frame[t].hostname \in Hostnames
              /\ ~EndsWithSuffixOf[frame[t].hostname, frame[t].claimed_crawler]
           => ~frame[t].forward_done
        /\ ~Recognised(t)
           => /\ pc[t] = "idle"
              /\ frame[t].hostname = None /\ ~frame[t].forward_done
              /\ frame[t].lookup = "none" /\ frame[t].response = << >>

\* C26 witness: a finished call whose reverse lookup gave a matching name,
\* whose forward lookup of that name failed, and whose DNS check so failed.
C26_Witness ==
    \E t \in Threads :
        /\ Returned(t) /\ Recognised(t)
        /\ frame[t].forward_done /\ frame[t].forward_name = frame[t].hostname
        /\ frame[t].forward_ips = {}
        /\ ~result[t].rdns_verified

====
